---- MODULE Spec2Model ----
(***************************************************************************)
(* Offline-first sync engine of PATHAI (src/src/sync/offline_manager.py):  *)
(* the SQLite job queue, the background worker sync_worker and the chunked *)
(* resumable upload _upload_slide, with network faults, store faults and   *)
(* process restarts.                                                        *)
(*                                                                          *)
(* One action is one segment of the worker between two awaits (asyncio runs *)
(* such a segment atomically); queue_slide may run between any two          *)
(* segments, a restart may happen at any of them.                           *)
(***************************************************************************)
EXTENDS Integers, Sequences, FiniteSets, TLC

\* ------------------------------------------------------------------ bounds
MaxJobs == 2          \* jobs ever enqueued
MaxRetry == 2         \* pauses allowed per job before the model stops failing its chunks
MaxUploadIds == 3     \* upload ids the remote endpoint hands out
WaitCap == 10         \* the seconds-slept counter saturates here

Priorities == {1, 5}
Bandwidths == {1, 10}      \* Mbps values a probe may measure

\* ------------------------------------------------------- program constants
CHUNK_SIZE_MIN == 5 * 1024 * 1024
CHUNK_SIZE_MID == 25 * 1024 * 1024
CHUNK_SIZE_MAX == 100 * 1024 * 1024
RETRY_INTERVALS == <<5, 10, 30, 60, 300, 600>>
DefaultBandwidth == 5
IdleSleep == 10
ErrorSleep == 30

FileSizes == {0, 12 * 1024 * 1024}

QUEUED == "queued"
UPLOADING == "uploading"
PAUSED == "paused"
COMPLETED == "completed"
FAILED == "failed"

NoJob == [job_id |-> 0]
NoPass == [job |-> 0, start |-> {}, sent |-> {}, state |-> "none"]
NoNet == [kind |-> "none", job |-> 0, idx |-> 0, id |-> 0, result |-> "none"]
\* json.loads result: its type, what `in` finds in it, and its "role" entry
NoUser == [json |-> "none", members |-> {}, role |-> ""]
\* authorization: str = Header(None)
NoHeader == [scheme |-> "", token |-> NoUser]
NoRequest == [endpoint |-> "", authorization |-> NoHeader, user |-> NoUser, status |-> 0]

VARIABLES
    store,                  \* sync_queue table: job_id -> row
    clock,                  \* datetime.utcnow() as seen by queue_slide
    is_online,              \* self.is_online
    current_bandwidth_mbps, \* self.current_bandwidth_mbps
    pc,                     \* position of sync_worker
    job,                    \* the worker's in-memory SlideSyncJob
    chunk_idx,              \* loop variable of _upload_slide
    next_upload_id,         \* next id the remote endpoint returns
    waited,                 \* seconds the worker slept since its last pass ended
    net,                    \* the HTTP request made by the last step
    picked,                 \* result of _get_next_job in the last step (-1: not called)
    pass,                   \* history of the current/last _upload_slide call
    ids_seen,               \* job_id -> upload ids initiate returned for it
    finalized,              \* jobs whose /sync/complete call succeeded
    acked,                  \* job_id -> chunk indices /sync/upload-chunk acknowledged
    http                    \* the last request the role check of the API handled

vars == <<store, clock, is_online, current_bandwidth_mbps, pc, job, chunk_idx,
          next_upload_id, waited, net, picked, pass, ids_seen, finalized,
          acked, http>>

\* ------------------------------------------------------------ pure helpers
Min(a, b) == IF a < b THEN a ELSE b

Range(s) == {s[i] : i \in 1..Len(s)}

AllChunks(j) == 0..(j.chunks_total - 1)

\* _adaptive_chunk_size
AdaptiveChunkSize(b) ==
    IF b < 2 THEN CHUNK_SIZE_MIN
    ELSE IF b < 10 THEN CHUNK_SIZE_MID
    ELSE CHUNK_SIZE_MAX

ChunksTotal_FloorPlusOne(file_size, chunk_size) == file_size \div chunk_size + 1

\* queue_slide: ceiling division
ChunksTotal(file_size, chunk_size) == (file_size + chunk_size - 1) \div chunk_size

SaveJob_Replans(s, j) ==
    [k \in (DOMAIN s) \cup {j.job_id} |->
        IF k = j.job_id
        THEN [j EXCEPT !.chunk_size = AdaptiveChunkSize(current_bandwidth_mbps),
                       !.chunks_total = ChunksTotal(j.file_size,
                                            AdaptiveChunkSize(current_bandwidth_mbps))]
        ELSE s[k]]

SaveJob_DropsOthers(s, j) == [k \in {j.job_id} |-> j]

\* _save_job: INSERT OR REPLACE keyed by job_id
SaveJob(s, j) == [k \in (DOMAIN s) \cup {j.job_id} |-> IF k = j.job_id THEN j ELSE s[k]]

EligibleStatuses_WithFailed == {QUEUED, PAUSED, FAILED}

EligibleStatuses_OnlyQueued == {QUEUED}

\* _get_next_job: WHERE status IN ('queued', 'paused')
EligibleStatuses == {QUEUED, PAUSED}

Eligible(s) == {k \in DOMAIN s : s[k].status \in EligibleStatuses}

OrderedBefore_NoFifo(a, b) == a.priority <= b.priority

\* _get_next_job: ORDER BY priority ASC, created_at ASC
OrderedBefore(a, b) ==
    \/ a.priority < b.priority
    \/ a.priority = b.priority /\ a.created_at <= b.created_at

\* _get_next_job: LIMIT 1 (rows that tie on both keys may come in either order)
NextJobs(s) ==
    IF Eligible(s) = {} THEN {0}
    ELSE {k \in Eligible(s) : \A m \in Eligible(s) : OrderedBefore(s[k], s[m])}

ShouldUpload_IgnoresOnline(r, online) == r # 0

\* sync_worker: if job and self.is_online
ShouldUpload(r, online) == r # 0 /\ online

NeedsInitiate_Always(j) == TRUE

\* _upload_slide: if not job.s3_upload_id
NeedsInitiate(j) == j.s3_upload_id = 0

IsUploaded_Never(j, i) == FALSE

\* _upload_slide: if chunk_idx in job.chunks_uploaded: continue
IsUploaded(j, i) == i \in Range(j.chunks_uploaded)

Remaining_SkipsLast(j, from) ==
    {i \in AllChunks(j) : i >= from /\ i < j.chunks_total - 1 /\ ~IsUploaded(j, i)}

\* _upload_slide: the indices the for loop still sends, from position `from`
Remaining(j, from) == {i \in AllChunks(j) : i >= from /\ ~IsUploaded(j, i)}

NextChunk(j, from) == CHOOSE i \in Remaining(j, from) : \A m \in Remaining(j, from) : i <= m

Slept(w, s) == Min(w + s, WaitCap)

MarkUploaded_Forgets(j, i) == j

MarkUploaded_DropsEarlier(j, i) == [j EXCEPT !.chunks_uploaded = <<i>>]

\* _upload_slide: job.chunks_uploaded.append(chunk_idx)
MarkUploaded(j, i) == [j EXCEPT !.chunks_uploaded = Append(@, i)]

WorkerRecovers_Dies == "stopped"

\* sync_worker: except Exception -> log, sleep 30 s, next iteration
WorkerRecovers == "top"

\* ------------------------------------------------------------------- Init
Init ==
    /\ store = <<>>
    /\ clock = 0
    /\ is_online = FALSE
    /\ current_bandwidth_mbps = DefaultBandwidth
    /\ pc = "top"
    /\ job = NoJob
    /\ chunk_idx = 0
    /\ next_upload_id = 1
    /\ waited = 0
    /\ net = NoNet
    /\ picked = -1
    /\ pass = NoPass
    /\ ids_seen = <<>>
    /\ finalized = {}
    /\ acked = <<>>
    /\ http = NoRequest

\* ---------------------------------------------------------------- actions
\* queue_slide(file_path, metadata, priority) for a file of one of the sizes
Enqueue(sizes) ==
    /\ Cardinality(DOMAIN store) < MaxJobs
    /\ \E file_size \in sizes, priority \in Priorities, now \in {clock + 1} :
         LET chunk_size == AdaptiveChunkSize(current_bandwidth_mbps)
             new == [job_id |-> Cardinality(DOMAIN store) + 1,
                     file_size |-> file_size,
                     chunk_size |-> chunk_size,
                     chunks_total |-> ChunksTotal(file_size, chunk_size),
                     chunks_uploaded |-> <<>>,
                     status |-> QUEUED,
                     priority |-> priority,
                     created_at |-> now,
                     retry_count |-> 0,
                     error_message |-> "",
                     s3_upload_id |-> 0]
         IN /\ store' = SaveJob(store, new)
            /\ ids_seen' = [k \in (DOMAIN ids_seen) \cup {new.job_id} |->
                              IF k = new.job_id THEN {} ELSE ids_seen[k]]
            /\ acked' = [k \in (DOMAIN acked) \cup {new.job_id} |->
                           IF k = new.job_id THEN {} ELSE acked[k]]
            /\ clock' = now
    /\ net' = NoNet
    /\ picked' = -1
    /\ UNCHANGED <<is_online, current_bandwidth_mbps, pc, job, chunk_idx,
                   next_upload_id, waited, pass, finalized, http>>

QueueSlide == Enqueue(FileSizes)

TestBandwidth_FailureResetsEstimate ==
    /\ pc = "top"
    /\ \/ \E b \in Bandwidths :
             /\ current_bandwidth_mbps' = b
             /\ is_online' = TRUE
             /\ net' = [NoNet EXCEPT !.kind = "probe", !.result = "ok"]
       \/ /\ UNCHANGED <<current_bandwidth_mbps, is_online>>
          /\ net' = [NoNet EXCEPT !.kind = "probe", !.result = "error"]
       \/ /\ is_online' = FALSE
          /\ current_bandwidth_mbps' = DefaultBandwidth
          /\ net' = [NoNet EXCEPT !.kind = "probe", !.result = "network"]
    /\ pc' = "select"
    /\ picked' = -1
    /\ UNCHANGED <<store, clock, job, chunk_idx, next_upload_id, waited, pass,
                   ids_seen, finalized, acked, http>>

TestBandwidth_AnyAnswerOnline ==
    /\ pc = "top"
    /\ \/ \E b \in Bandwidths :
             /\ current_bandwidth_mbps' = b
             /\ is_online' = TRUE
             /\ net' = [NoNet EXCEPT !.kind = "probe", !.result = "ok"]
       \/ /\ UNCHANGED current_bandwidth_mbps
          /\ is_online' = TRUE
          /\ net' = [NoNet EXCEPT !.kind = "probe", !.result = "error"]
       \/ /\ is_online' = FALSE
          /\ UNCHANGED current_bandwidth_mbps
          /\ net' = [NoNet EXCEPT !.kind = "probe", !.result = "network"]
    /\ pc' = "select"
    /\ picked' = -1
    /\ UNCHANGED <<store, clock, job, chunk_idx, next_upload_id, waited, pass,
                   ids_seen, finalized, acked, http>>

\* sync_worker: the periodic test_bandwidth()
TestBandwidth ==
    /\ pc = "top"
    /\ \/ \E b \in Bandwidths :              \* HTTP 200
             /\ current_bandwidth_mbps' = b
             /\ is_online' = TRUE
             /\ net' = [NoNet EXCEPT !.kind = "probe", !.result = "ok"]
       \/ /\ UNCHANGED <<current_bandwidth_mbps, is_online>>   \* another status code
          /\ net' = [NoNet EXCEPT !.kind = "probe", !.result = "error"]
       \/ /\ is_online' = FALSE              \* timeout / network error
          /\ UNCHANGED current_bandwidth_mbps
          /\ net' = [NoNet EXCEPT !.kind = "probe", !.result = "network"]
    /\ pc' = "select"
    /\ picked' = -1
    /\ UNCHANGED <<store, clock, job, chunk_idx, next_upload_id, waited, pass,
                   ids_seen, finalized, acked, http>>

\* _upload_slide returned to sync_worker, which loops without sleeping
EndPass(p, st) ==
    /\ pc' = "top"
    /\ job' = NoJob
    /\ chunk_idx' = 0
    /\ waited' = 0
    /\ pass' = [p EXCEPT !.state = st]

\* _upload_slide: except Exception (the handler's own save may raise, and then
\* sync_worker's except sleeps 30 s)
UploadFailed(j, p) ==
    LET fj == [j EXCEPT !.status = FAILED, !.error_message = "error",
                        !.retry_count = @ + 1]
    IN \/ /\ store' = SaveJob(store, fj)
          /\ EndPass(p, "fault")
       \/ /\ UNCHANGED store
          /\ pc' = WorkerRecovers
          /\ job' = NoJob
          /\ chunk_idx' = 0
          /\ waited' = Slept(0, ErrorSleep)
          /\ pass' = [p EXCEPT !.state = "fault"]

\* sync_worker: job = self._get_next_job(), then the start of _upload_slide up
\* to its first await, or the sleep
GetNextJob ==
    /\ pc \in {"top", "select"}
    /\ net' = NoNet
    /\ UNCHANGED <<clock, is_online, current_bandwidth_mbps, next_upload_id,
                   ids_seen, finalized, acked, http>>
    /\ \/ /\ picked' = -1                    \* the SELECT raises
          /\ pc' = WorkerRecovers
          /\ waited' = Slept(waited, ErrorSleep)
          /\ pass' = NoPass
          /\ UNCHANGED <<store, job, chunk_idx>>
       \/ \E r \in NextJobs(store) :
            /\ picked' = r
            /\ IF ShouldUpload(r, is_online)
               THEN LET j == [store[r] EXCEPT !.status = UPLOADING]
                        p == [job |-> r, start |-> Range(j.chunks_uploaded),
                              sent |-> {}, state |-> "running"]
                    IN \/ /\ store' = SaveJob(store, j)
                          /\ job' = j
                          /\ chunk_idx' = 0
                          /\ pc' = IF NeedsInitiate(j) THEN "initiate" ELSE "chunks"
                          /\ waited' = 0
                          /\ pass' = p
                       \/ UploadFailed(j, p)
               ELSE /\ pc' = "top"
                    /\ waited' = Slept(waited, IdleSleep)
                    /\ pass' = NoPass
                    /\ UNCHANGED <<store, job, chunk_idx>>

\* _upload_slide: upload_id = await self._initiate_multipart_upload(job)
InitiateMultipartUpload ==
    /\ pc = "initiate"
    /\ picked' = -1
    /\ UNCHANGED <<clock, is_online, current_bandwidth_mbps, finalized, acked, http>>
    /\ \/ /\ next_upload_id <= MaxUploadIds  \* 200 with data["upload_id"]
          /\ net' = [kind |-> "initiate", job |-> job.job_id, idx |-> 0, id |-> 0,
                     result |-> "ok"]
          /\ next_upload_id' = next_upload_id + 1
          /\ ids_seen' = [ids_seen EXCEPT ![job.job_id] = @ \cup {next_upload_id}]
          /\ LET j == [job EXCEPT !.s3_upload_id = next_upload_id]
             IN \/ /\ store' = SaveJob(store, j)
                   /\ job' = j
                   /\ pc' = "chunks"
                   /\ UNCHANGED <<chunk_idx, waited, pass>>
                \/ UploadFailed(j, pass)
       \/ /\ UNCHANGED <<next_upload_id, ids_seen>>
          /\ \E r \in {"network", "error"} :  \* timeout / connection reset, or HTTP error
               net' = [kind |-> "initiate", job |-> job.job_id, idx |-> 0, id |-> 0,
                       result |-> r]
          /\ UploadFailed(job, pass)

\* _upload_slide: one iteration of the chunk loop that sends a chunk
UploadChunk ==
    /\ pc = "chunks"
    /\ Remaining(job, chunk_idx) # {}
    /\ LET i == NextChunk(job, chunk_idx)
           p == [pass EXCEPT !.sent = @ \cup {i}]
           paused == [job EXCEPT !.status = PAUSED, !.retry_count = @ + 1]
           req == [kind |-> "chunk", job |-> job.job_id, idx |-> i,
                   id |-> job.s3_upload_id, result |-> "ok"]
       IN /\ \/ /\ UNCHANGED is_online        \* acknowledged
                /\ net' = req
                /\ acked' = [acked EXCEPT ![job.job_id] = @ \cup {i}]
                /\ LET j == MarkUploaded(job, i)
                   IN \/ /\ store' = SaveJob(store, j)
                         /\ job' = j
                         /\ chunk_idx' = i + 1
                         /\ pass' = p
                         /\ UNCHANGED <<pc, waited>>
                      \/ UploadFailed(j, p)
             \/ /\ job.retry_count < MaxRetry
                /\ UNCHANGED acked
                /\ \/ /\ is_online' = FALSE   \* httpx.TimeoutException / NetworkError
                      /\ net' = [req EXCEPT !.result = "network"]
                   \/ /\ UNCHANGED is_online  \* any other exception
                      /\ net' = [req EXCEPT !.result = "error"]
                /\ \/ /\ store' = SaveJob(store, paused)
                      /\ EndPass(p, "fault")
                   \/ UploadFailed(paused, p)
    /\ picked' = -1
    /\ UNCHANGED <<clock, current_bandwidth_mbps, next_upload_id, ids_seen, finalized,
                   http>>

\* _upload_slide: await self._complete_multipart_upload(job), then COMPLETED
CompleteMultipartUpload ==
    /\ pc = "chunks"
    /\ Remaining(job, chunk_idx) = {}
    /\ picked' = -1
    /\ UNCHANGED <<clock, is_online, current_bandwidth_mbps, next_upload_id, ids_seen,
                   acked, http>>
    /\ \/ /\ finalized' = finalized \cup {job.job_id}
          /\ net' = [kind |-> "complete", job |-> job.job_id, idx |-> 0,
                     id |-> job.s3_upload_id, result |-> "ok"]
          /\ LET j == [job EXCEPT !.status = COMPLETED]
             IN \/ /\ store' = SaveJob(store, j)
                   /\ EndPass(pass, "done")
                \/ UploadFailed(j, pass)
       \/ /\ UNCHANGED finalized
          /\ \E r \in {"network", "error"} :  \* timeout / connection reset, or HTTP error
               net' = [kind |-> "complete", job |-> job.job_id, idx |-> 0,
                       id |-> job.s3_upload_id, result |-> r]
          /\ UploadFailed(job, pass)

\* the process dies and is started again: OfflineSyncManager.__init__ and
\* sync_worker run on the same sync_queue.db
Restart ==
    /\ pc # "top" \/ is_online \/ current_bandwidth_mbps # DefaultBandwidth
    /\ is_online' = FALSE
    /\ current_bandwidth_mbps' = DefaultBandwidth
    /\ pc' = "top"
    /\ job' = NoJob
    /\ chunk_idx' = 0
    /\ waited' = 0
    /\ net' = NoNet
    /\ picked' = -1
    /\ pass' = NoPass
    /\ UNCHANGED <<store, clock, next_upload_id, ids_seen, finalized, acked, http>>

Next ==
    \/ QueueSlide
    \/ TestBandwidth
    \/ GetNextJob
    \/ InitiateMultipartUpload
    \/ UploadChunk
    \/ CompleteMultipartUpload
    \/ Restart

Spec == Init /\ [][Next]_vars

\* ------------------------------------------------- resume after a restart
\* The list json.dumps wrote for a set of acknowledged indices
RECURSIVE IndexList(_)
IndexList(S) ==
    IF S = {} THEN <<>>
    ELSE LET m == CHOOSE x \in S : \A y \in S : x <= y
         IN <<m>> \o IndexList(S \ {m})

ResumeFileSize == 12 * 1024 * 1024

\* A freshly started process on a sync_queue.db that holds one job stopped
\* (PAUSED) with an arbitrary set S of chunk indices persisted.
InitResume ==
    /\ \E S \in SUBSET (0..(ChunksTotal(ResumeFileSize, CHUNK_SIZE_MIN) - 1)),
          priority \in Priorities :
         store = (1 :> [job_id |-> 1,
                        file_size |-> ResumeFileSize,
                        chunk_size |-> CHUNK_SIZE_MIN,
                        chunks_total |-> ChunksTotal(ResumeFileSize, CHUNK_SIZE_MIN),
                        chunks_uploaded |-> IndexList(S),
                        status |-> PAUSED,
                        priority |-> priority,
                        created_at |-> 1,
                        retry_count |-> 1,
                        error_message |-> "",
                        s3_upload_id |-> 1])
    /\ clock = 1
    /\ is_online = FALSE
    /\ current_bandwidth_mbps = DefaultBandwidth
    /\ pc = "top"
    /\ job = NoJob
    /\ chunk_idx = 0
    /\ next_upload_id = 2
    /\ waited = 0
    /\ net = NoNet
    /\ picked = -1
    /\ pass = NoPass
    /\ ids_seen = (1 :> {1})
    /\ finalized = {}
    /\ acked = (1 :> Range(store[1].chunks_uploaded))
    /\ http = NoRequest

SpecResume == InitResume /\ [][Next]_vars

\* ----------------------------------------------------------------- claims
Stored(k) == store[k]

\* C1 (SpecResume): a pass over a job stopped with the set S persisted never
\* sends an upload-chunk request for an index in S, and a pass that returns
\* without a fault has sent exactly {0..chunks_total-1} \ S and left the job
\* COMPLETED with chunks_uploaded = {0..chunks_total-1}, each index once.
ResumeUploadsExactlyComplement ==
    /\ pass.state # "none" => pass.sent \cap pass.start = {}
    /\ pass.state = "done" =>
          /\ pass.sent = AllChunks(Stored(pass.job)) \ pass.start
          /\ Stored(pass.job).status = COMPLETED
          /\ Range(Stored(pass.job).chunks_uploaded) = AllChunks(Stored(pass.job))
          /\ Len(Stored(pass.job).chunks_uploaded) = Stored(pass.job).chunks_total

ResumedNonContiguousDone ==
    /\ pass.state = "done"
    /\ pass.job = 1
    /\ pass.start = {0, 2}
    /\ pass.sent = {1}
    /\ Stored(1).status = COMPLETED

\* C2: for every job, status = COMPLETED iff chunks_uploaded holds all
\* chunks_total indices and the remote complete call for the job succeeded.
CompletedIffAllChunksAndFinalized ==
    \A k \in DOMAIN store :
        Stored(k).status = COMPLETED <=>
            /\ Range(Stored(k).chunks_uploaded) = AllChunks(Stored(k))
            /\ k \in finalized

RetryCeiling == Len(RETRY_INTERVALS)

\* C3: a job is FAILED only once its retry budget is exhausted: retry_count
\* has reached the ceiling (the length of the backoff schedule).
FailedOnlyAfterRetryBudget ==
    \A k \in DOMAIN store :
        Stored(k).status = FAILED => Stored(k).retry_count >= RetryCeiling

\* C4: when the worker is at the top of its loop with no job in hand (as it
\* is after a restart), every job persisted as UPLOADING is eligible for
\* selection like a PAUSED one.
UploadingEligibleAfterRestart ==
    (pc = "top" /\ job = NoJob) =>
        \A k \in DOMAIN store : Stored(k).status = UPLOADING => k \in Eligible(store)

\* C5: a step taken while is_online is false sends no initiate, upload-chunk
\* or complete request and changes no job's status.
OfflineNoUpload ==
    [][~is_online =>
         /\ net'.kind \notin {"initiate", "chunk", "complete"}
         /\ \A k \in DOMAIN store : store'[k].status = store[k].status]_vars

OfflineJobWaiting ==
    /\ ~is_online
    /\ picked > 0
    /\ Stored(picked).status \in {QUEUED, PAUSED}
    /\ pc = "top"
    /\ waited > 0

\* C6: _get_next_job returns none exactly when no job is QUEUED or PAUSED,
\* and otherwise a QUEUED or PAUSED job of the lowest priority value and,
\* among those, of the oldest created_at.
PriorityThenFifo ==
    [][picked' >= 0 =>
         LET cand == {k \in DOMAIN store : store[k].status \in {QUEUED, PAUSED}}
         IN IF cand = {} THEN picked' = 0
            ELSE /\ picked' \in cand
                 /\ \A m \in cand :
                      /\ store[picked'].priority <= store[m].priority
                      /\ store[m].priority = store[picked'].priority
                           => store[picked'].created_at <= store[m].created_at]_vars

UrgentPickedBeforeOlder ==
    /\ picked = 2
    /\ Stored(1).status \in {QUEUED, PAUSED}
    /\ Stored(1).priority > Stored(2).priority

\* C7: initiate is called for a job only while its s3_upload_id is empty, a
\* job never sees two upload ids, and every upload-chunk and complete request
\* of the job carries the one id initiate returned.
IdempotentInitiate ==
    [][/\ net'.kind = "initiate" =>
             store[net'.job].s3_upload_id = 0 /\ job.s3_upload_id = 0
       /\ \A k \in DOMAIN ids_seen' : Cardinality(ids_seen'[k]) <= 1
       /\ net'.kind \in {"chunk", "complete"} =>
             net'.id # 0 /\ ids_seen'[net'.job] = {net'.id}]_vars

ResumedChunkUsesSameId ==
    /\ net.kind = "chunk"
    /\ pc = "chunks"
    /\ job.retry_count >= 1
    /\ ids_seen[job.job_id] = {net.id}
    /\ Len(job.chunks_uploaded) >= 2

\* C8: once a job is COMPLETED or FAILED no step changes its chunks_uploaded,
\* status or s3_upload_id.
TerminalStability ==
    [][\A k \in DOMAIN store :
         store[k].status \in {COMPLETED, FAILED} =>
            /\ store'[k].status = store[k].status
            /\ store'[k].chunks_uploaded = store[k].chunks_uploaded
            /\ store'[k].s3_upload_id = store[k].s3_upload_id]_vars

TerminalJobsWhileUploading ==
    /\ pc = "chunks"
    /\ net.kind = "chunk"
    /\ \E k \in DOMAIN store :
          k # job.job_id /\ Stored(k).status \in {COMPLETED, FAILED}

RetryInterval(k) == RETRY_INTERVALS[Min(k, Len(RETRY_INTERVALS))]

\* C9: the sleep imposed before retry k of a paused job is at least entry k
\* of the schedule 5, 10, 30, 60, 300, 600 (the last entry from then on; the
\* model's sleep counter saturates at WaitCap).
BackoffFollowsSchedule ==
    [][(/\ picked' > 0
        /\ ShouldUpload(picked', is_online)
        /\ store[picked'].status = PAUSED
        /\ store[picked'].retry_count >= 1)
         => waited >= Min(RetryInterval(store[picked'].retry_count), WaitCap)]_vars

\* C10: the chunk size planned for the bandwidth estimate b is 5 MB for
\* b < 2, 25 MB for 2 <= b <= 10 and 100 MB for b > 10.
ChunkSizePolicy ==
    AdaptiveChunkSize(current_bandwidth_mbps) =
        IF current_bandwidth_mbps < 2 THEN 5 * 1024 * 1024
        ELSE IF current_bandwidth_mbps <= 10 THEN 25 * 1024 * 1024
        ELSE 100 * 1024 * 1024

\* ------------------------------------------------ chunk planning alone
\* File sizes around the chunk-size multiples: empty, one byte, exact
\* multiples of 5 MB / 25 MB / 100 MB and their neighbours.
PlanFileSizes ==
    {0, 1, CHUNK_SIZE_MIN - 1, CHUNK_SIZE_MIN, CHUNK_SIZE_MIN + 1, 12 * 1024 * 1024,
     CHUNK_SIZE_MID, 2 * CHUNK_SIZE_MID, CHUNK_SIZE_MAX, CHUNK_SIZE_MAX + 1}

PlanQueueSlide == Enqueue(PlanFileSizes)

\* queue_slide called under every bandwidth estimate a probe leaves behind
\* (Restart brings the worker back to the probe and the estimate back to 5)
NextPlan ==
    \/ PlanQueueSlide
    \/ TestBandwidth
    \/ Restart

SpecPlan == Init /\ [][NextPlan]_vars

\* C11 (SpecPlan): every job queue_slide created has chunks_total =
\* ceil(file_size / chunk_size): chunk_size * (chunks_total - 1) < file_size
\* <= chunk_size * chunks_total, for the empty file and exact multiples too.
ChunksTotalIsCeiling ==
    \A k \in DOMAIN store :
        /\ Stored(k).chunk_size > 0
        /\ Stored(k).chunk_size * (Stored(k).chunks_total - 1) < Stored(k).file_size
        /\ Stored(k).file_size <= Stored(k).chunk_size * Stored(k).chunks_total

PlannedTwelveMegabytesAtOneMbps ==
    /\ current_bandwidth_mbps = 1
    /\ \E k \in DOMAIN store :
         /\ Stored(k).file_size = 12 * 1024 * 1024
         /\ Stored(k).chunk_size = 5 * 1024 * 1024
         /\ Stored(k).chunks_total = 3
    /\ \E k \in DOMAIN store :
         /\ Stored(k).file_size = 2 * Stored(k).chunk_size
         /\ Stored(k).chunks_total = 2

\* C12: after a timeout or connection reset in initiate, upload-chunk or
\* complete, the job is persisted as PAUSED and is_online is false.
NetworkFailurePausesJob ==
    (net.result = "network" /\ net.kind \in {"initiate", "chunk", "complete"}) =>
        (Stored(net.job).status = PAUSED /\ ~is_online)

ChunksUploadedValidAndDistinct ==
    /\ \A k \in DOMAIN store :
         /\ Range(Stored(k).chunks_uploaded) \subseteq AllChunks(Stored(k))
         /\ Cardinality(Range(Stored(k).chunks_uploaded)) = Len(Stored(k).chunks_uploaded)
    /\ job # NoJob =>
         /\ Range(job.chunks_uploaded) \subseteq AllChunks(job)
         /\ Cardinality(Range(job.chunks_uploaded)) = Len(job.chunks_uploaded)

AllChunksAfterPauseAndResume ==
    \E k \in DOMAIN store :
        /\ Stored(k).status = COMPLETED
        /\ Stored(k).retry_count = 2
        /\ Stored(k).chunks_uploaded = <<0, 1, 2>>

\* C16: whenever the worker is about to send a chunk (or the complete call),
\* every index the remote endpoint acknowledged for the job is in the job's
\* store record; and the store record holds only acknowledged indices.
PersistBeforeNextChunk ==
    /\ \A k \in DOMAIN store : Range(Stored(k).chunks_uploaded) \subseteq acked[k]
    /\ pc = "chunks" => acked[job.job_id] \subseteq Range(Stored(job.job_id).chunks_uploaded)

SecondChunkAfterFirstPersisted ==
    /\ pc = "chunks"
    /\ net.kind = "chunk"
    /\ net.idx = 1
    /\ net.result = "ok"
    /\ Stored(net.job).chunks_uploaded = <<0, 1>>

\* C17: when the complete call is sent, chunks_uploaded of the job (in the
\* store and in the worker's hands) holds all chunks_total indices, and no
\* chunk upload of the pass has failed.
CompleteOnlyWhenAllChunks ==
    net.kind = "complete" =>
        /\ Range(Stored(net.job).chunks_uploaded) = AllChunks(Stored(net.job))
        /\ pass.job = net.job
        /\ pass.start \cup pass.sent = AllChunks(Stored(net.job))
        /\ acked[net.job] = AllChunks(Stored(net.job))

CompleteSentAfterThreeChunks ==
    /\ net.kind = "complete"
    /\ net.result = "ok"
    /\ Stored(net.job).chunks_total = 3
    /\ pass.sent = {0, 1, 2}
    /\ Stored(net.job).status = COMPLETED

\* C18: after the complete call failed the job is persisted as UPLOADING.
CompleteFailureLeavesUploading ==
    (net.kind = "complete" /\ net.result \in {"network", "error"}) =>
        Stored(net.job).status = UPLOADING

\* C20: a PAUSED job is not started again before the backoff delay of its
\* retry_count has been slept.
PausedJobWaitsForBackoff ==
    [][\A k \in DOMAIN store :
         (store[k].status = PAUSED /\ store'[k].status = UPLOADING) =>
            waited >= Min(RetryInterval(store[k].retry_count), WaitCap)]_vars

\* ------------------------------------------------ a job retried many times
\* A freshly started process on a sync_queue.db that holds one job whose chunk
\* uploads failed RetryCeiling + 1 times: each failure saved it PAUSED with
\* retry_count + 1, the indices acknowledged before it persisted.
InitRetry ==
    /\ \E n \in 0..(ChunksTotal(ResumeFileSize, CHUNK_SIZE_MIN) - 1),
          priority \in Priorities :
         store = (1 :> [job_id |-> 1,
                        file_size |-> ResumeFileSize,
                        chunk_size |-> CHUNK_SIZE_MIN,
                        chunks_total |-> ChunksTotal(ResumeFileSize, CHUNK_SIZE_MIN),
                        chunks_uploaded |-> IndexList(0..(n - 1)),
                        status |-> PAUSED,
                        priority |-> priority,
                        created_at |-> 1,
                        retry_count |-> RetryCeiling + 1,
                        error_message |-> "",
                        s3_upload_id |-> 1])
    /\ clock = 1
    /\ is_online = FALSE
    /\ current_bandwidth_mbps = DefaultBandwidth
    /\ pc = "top"
    /\ job = NoJob
    /\ chunk_idx = 0
    /\ next_upload_id = 2
    /\ waited = 0
    /\ net = NoNet
    /\ picked = -1
    /\ pass = NoPass
    /\ ids_seen = (1 :> {1})
    /\ finalized = {}
    /\ acked = (1 :> Range(store[1].chunks_uploaded))
    /\ http = NoRequest

SpecRetry == InitRetry /\ [][Next]_vars

\* C19 (SpecRetry): the worker never processes a job whose retry_count exceeds
\* the ceiling; such a job is FAILED and is not selected.
RetriesStopAtCeiling ==
    /\ picked > 0 => Stored(picked).retry_count <= RetryCeiling
    /\ pc \in {"initiate", "chunks"} => job.retry_count <= RetryCeiling

\* ------------------------------------------------------------ role checks
ALLOWED_ROLES ==
    [e \in {"upload", "retrieve", "list", "metadata", "delete", "ai_run"} |->
        CASE e = "upload" -> {"admin", "pathologist"}
          [] e = "retrieve" -> {"admin", "pathologist"}
          [] e = "list" -> {"admin", "pathologist", "viewer"}
          [] e = "metadata" -> {"admin", "pathologist", "viewer"}
          [] e = "delete" -> {"admin"}
          [] e = "ai_run" -> {"admin", "pathologist"}]

Endpoints == DOMAIN ALLOWED_ROLES \cup {"export"}
Roles == {"admin", "pathologist", "viewer", "guest"}
Schemes == {"Bearer", "bearer", "Basic"}

\* What the token can decode to: an object (with or without the two keys), an
\* array or a string (holding or not the two words), a number, or no JSON
Tokens ==
    {[json |-> "dict", members |-> m, role |-> r] :
        m \in {{"role"}, {"user_id", "role"}}, r \in Roles}
    \cup {[json |-> t, members |-> m, role |-> ""] :
             t \in {"list", "str"}, m \in SUBSET {"user_id", "role"}}
    \cup {[json |-> "dict", members |-> m, role |-> ""] : m \in {{}, {"user_id"}}}
    \cup {[json |-> t, members |-> {}, role |-> ""] : t \in {"number", "invalid"}}

Headers == {NoHeader} \cup {[scheme |-> s, token |-> t] : s \in Schemes, t \in Tokens}

\* check_role: ALLOWED_ROLES.get(endpoint, [])
RequiredRoles(endpoint) ==
    IF endpoint \in DOMAIN ALLOWED_ROLES THEN ALLOWED_ROLES[endpoint] ELSE {}

\* get_current_user: the user it returns, or NoUser where it raises 401
GetCurrentUser(authorization) ==
    IF authorization = NoHeader THEN NoUser
    ELSE IF authorization.scheme \notin {"Bearer", "bearer"} THEN NoUser
    ELSE IF authorization.token.json \notin {"dict", "list", "str"} THEN NoUser
    ELSE IF ~({"user_id", "role"} \subseteq authorization.token.members) THEN NoUser
    ELSE authorization.token

\* _check_role: user["role"] raises on an array or a string (500), else 0
SubscriptRole(user) == IF user.json = "dict" THEN 0 ELSE 500

\* _check_role(user): the status of the response
CheckRole(endpoint, user) ==
    IF SubscriptRole(user) # 0 THEN SubscriptRole(user)
    ELSE IF user.role \notin RequiredRoles(endpoint) THEN 403
    ELSE 200

\* A request to a route that depends on check_role(endpoint)
RoleCheckedRequest ==
    /\ \E endpoint \in Endpoints, authorization \in Headers :
         LET user == GetCurrentUser(authorization)
         IN http' = [endpoint |-> endpoint,
                     authorization |-> authorization,
                     user |-> user,
                     status |-> IF user = NoUser THEN 401
                                ELSE CheckRole(endpoint, user)]
    /\ UNCHANGED <<store, clock, is_online, current_bandwidth_mbps, pc, job,
                   chunk_idx, next_upload_id, waited, net, picked, pass,
                   ids_seen, finalized, acked>>

NextAuth == RoleCheckedRequest

SpecAuth == Init /\ [][NextAuth]_vars

StatusFollowsStateMachine ==
    [][\A k \in DOMAIN store' :
         IF k \in DOMAIN store
         THEN \/ store'[k].status = store[k].status
              \/ <<store[k].status, store'[k].status>> \in
                    {<<QUEUED, UPLOADING>>, <<PAUSED, UPLOADING>>,
                     <<UPLOADING, PAUSED>>, <<UPLOADING, COMPLETED>>,
                     <<UPLOADING, FAILED>>, <<PAUSED, FAILED>>}
         ELSE store'[k].status = QUEUED]_vars

\* C22: at most one job has status UPLOADING.
AtMostOneUploading ==
    Cardinality({k \in DOMAIN store : Stored(k).status = UPLOADING}) <= 1

\* C23: after a save that failed behind an acknowledged chunk, the store does
\* not hold that chunk index for the job and the job's status is still
\* UPLOADING.
FailedSaveDoesNotAdvance ==
    (net.kind = "chunk" /\ net.result = "ok" /\ pass.state = "fault") =>
        /\ net.idx \notin Range(Stored(net.job).chunks_uploaded)
        /\ Stored(net.job).status = UPLOADING

\* C24: after the remote endpoint rejected a chunk request of a job (an HTTP
\* error, not a network failure), the job's s3_upload_id is cleared.
RejectionClearsUploadId ==
    (net.kind = "chunk" /\ net.result = "error") => Stored(net.job).s3_upload_id = 0

\* ------------------------------------------------------------ queue status
\* get_queue_status: SELECT status, COUNT(*) ... GROUP BY status
GetQueueStatus(s) ==
    [st \in {s[k].status : k \in DOMAIN s} |->
        Cardinality({k \in DOMAIN s : s[k].status = st})]

\* C25: every step leaves the persisted chunks_uploaded of every job a
\* superset of what it was.
ChunksUploadedOnlyGrows ==
    [][\A k \in DOMAIN store :
         /\ k \in DOMAIN store'
         /\ Range(store[k].chunks_uploaded) \subseteq Range(store'[k].chunks_uploaded)]_vars

GrownOverPauseAndResume ==
    \E k \in DOMAIN store :
        /\ Stored(k).status \in {PAUSED, FAILED}
        /\ Stored(k).retry_count = 2
        /\ Stored(k).chunks_uploaded = <<0, 1>>

\* C26: no step changes job_id, file_size, priority, chunk_size or
\* chunks_total of a job in the store, whatever the bandwidth estimate does.
PlanFixedAtEnqueue ==
    [][\A k \in DOMAIN store :
         /\ k \in DOMAIN store'
         /\ store'[k].job_id = store[k].job_id
         /\ store'[k].file_size = store[k].file_size
         /\ store'[k].priority = store[k].priority
         /\ store'[k].chunk_size = store[k].chunk_size
         /\ store'[k].chunks_total = store[k].chunks_total]_vars

UploadedAcrossThreshold ==
    \E k \in DOMAIN store :
        /\ Stored(k).status = COMPLETED
        /\ Stored(k).chunks_total = 3
        /\ Stored(k).retry_count >= 1
        /\ Stored(k).chunk_size = CHUNK_SIZE_MIN
        /\ AdaptiveChunkSize(current_bandwidth_mbps) = CHUNK_SIZE_MAX

\* C28: no step removes a job_id from the store; a step that adds a row
\* changes no other row; a step that changes a row changes only the row of
\* the job the worker is processing; COMPLETED and FAILED rows stay and are
\* counted by get_queue_status.
NoJobRecordDeleted ==
    [][/\ DOMAIN store \subseteq DOMAIN store'
       /\ \A k \in DOMAIN store :
            store'[k] # store[k] =>
               /\ DOMAIN store' = DOMAIN store
               /\ k = pass'.job
               /\ \A m \in DOMAIN store \ {k} : store'[m] = store[m]
       /\ \A k \in DOMAIN store :
            store[k].status \in {COMPLETED, FAILED} =>
               /\ store'[k].status \in DOMAIN GetQueueStatus(store')
               /\ GetQueueStatus(store')[store'[k].status] >= 1]_vars

EnqueuedBetweenWorkerSteps ==
    /\ pc = "chunks"
    /\ picked = -1
    /\ net = NoNet
    /\ job.job_id = 1
    /\ job.chunks_uploaded # <<>>
    /\ 2 \in DOMAIN store
    /\ Stored(2).created_at = clock

\* C27: a probe that ends in a timeout or network error leaves is_online
\* false and the estimate as it was; a probe answered with 200 leaves
\* is_online true and the estimate at the measured value; no probe changes a
\* job record; and the estimate changes only by a successful probe or by the
\* construction of the manager, which sets it to 5.
ProbeFrameEffect ==
    [][/\ net'.kind = "probe" =>
            /\ store' = store
            /\ net'.result = "network" =>
                  (~is_online' /\ current_bandwidth_mbps' = current_bandwidth_mbps)
            /\ net'.result = "ok" =>
                  (is_online' /\ current_bandwidth_mbps' \in Bandwidths)
       /\ current_bandwidth_mbps' # current_bandwidth_mbps =>
            \/ net'.kind = "probe" /\ net'.result = "ok"
            \/ current_bandwidth_mbps' = DefaultBandwidth /\ ~is_online']_vars

StaleEstimateAfterFailedProbe ==
    /\ net.kind = "probe"
    /\ net.result = "network"
    /\ ~is_online
    /\ current_bandwidth_mbps = 1
    /\ store # <<>>

\* C29: is_online is false at construction and becomes true only in a probe
\* answered with 200; while the worker is inside a pass (about to send
\* initiate, upload-chunk or complete) is_online is true.
OnlineOnlyAfterProbe ==
    /\ ~is_online
    /\ [](pc \in {"initiate", "chunks"} => is_online)
    /\ [][(is_online' /\ ~is_online) =>
             (net'.kind = "probe" /\ net'.result = "ok")]_vars

OfflineAfterChunkNetworkError ==
    /\ net.kind = "chunk"
    /\ net.result = "network"
    /\ ~is_online
    /\ pc = "top"
    /\ Stored(net.job).status = PAUSED

\* --------------------------------------- progress once the faults are over
\* The steps of the worker in which the remote endpoint answers successfully
\* and the store does not fail
HealthyTestBandwidth == TestBandwidth /\ net'.result = "ok"

HealthyGetNextJob == GetNextJob /\ picked' # -1 /\ pass'.state # "fault"

HealthyInitiateMultipartUpload ==
    InitiateMultipartUpload /\ net'.result = "ok" /\ pass'.state # "fault"

HealthyUploadChunk == UploadChunk /\ net'.result = "ok" /\ pass'.state # "fault"

HealthyCompleteMultipartUpload ==
    CompleteMultipartUpload /\ net'.result = "ok" /\ pass'.state # "fault"

NextProgress ==
    \/ QueueSlide
    \/ HealthyTestBandwidth
    \/ HealthyGetNextJob
    \/ HealthyInitiateMultipartUpload
    \/ HealthyUploadChunk
    \/ HealthyCompleteMultipartUpload

\* sync_worker is a while True loop of an asyncio task: each of its steps is
\* taken once it stays possible, the periodic probe included
SpecProgress ==
    /\ InitResume
    /\ [][NextProgress]_vars
    /\ WF_vars(HealthyTestBandwidth)
    /\ WF_vars(HealthyGetNextJob)
    /\ WF_vars(HealthyInitiateMultipartUpload)
    /\ WF_vars(HealthyUploadChunk)
    /\ WF_vars(HealthyCompleteMultipartUpload)

\* C30 (SpecProgress): once every probe, initiate, upload-chunk and complete
\* request succeeds and the store does not fail, every job that is QUEUED or
\* PAUSED is eventually COMPLETED.
EligibleJobsEventuallyComplete ==
    \A k \in 1..MaxJobs :
        (k \in DOMAIN store /\ store[k].status \in {QUEUED, PAUSED})
            ~> (k \in DOMAIN store /\ store[k].status = COMPLETED)

PausedAndQueuedJobsCompleted ==
    /\ 2 \in DOMAIN store
    /\ Stored(1).status = COMPLETED
    /\ Stored(1).retry_count = 1
    /\ Stored(2).status = COMPLETED
    /\ Stored(2).chunks_total = 3
    /\ finalized = {1, 2}

====
